---- MODULE Spec2Model ----
(***************************************************************************)
(* Model of the Hold'em table server (side pots, dealer rotation,          *)
(* turn-based bets): the in-memory `state` object, the socket handlers     *)
(* that mutate it, the post-showdown timer, and the pure helpers           *)
(* (evaluateBest7, compareScoreArrays, buildPots, distributePots).         *)
(***************************************************************************)
EXTENDS Integers, Sequences, FiniteSets, TLC

\* ------------------------------------------------------------------ config
MAX_SEATS == 6
SMALL_BLIND == 10
BIG_BLIND == 20
MIN_BUYIN == 100
MAX_BUYIN == 1000000

\* JavaScript null for a seat index / rank, and the -1 of seatIndexForSocket and
\* of the initial dealer.
NULL == -1
\* JavaScript null for a socket id (state.ownerSocket, an empty seat).
NoSocket == "null"

Seats == 0 .. (MAX_SEATS - 1)

\* ------------------------------------------------------------------ bounds
\* successful `start hand` commands in one behaviour
MaxHands == 2
\* accepted `action` commands in one behaviour
MaxActions == 5
\* successful `sit` commands in one behaviour
MaxSits == 2
\* seats vacated (stand, kick, disconnect) in one behaviour
MaxLeaves == 1
\* largest single contribution tried on buildPots
MaxContrib == 2

\* the clients (socket ids) that may connect
Sockets == {"s1", "s2"}
\* the clients that ask for the owner role
OwnerInputs == {"s1"}
\* inputs of the commands
SeatInputs == {0, 2, 6}
\* the buy-in each client asks for: s1 none (it gets MIN_BUYIN), s2 200
BuyInInputs(c) == IF c = "s1" THEN {0} ELSE {200}
AmountInputs == {0, 10, 20, 100}
ActionInputs ==
  {[type |-> t, amount |-> 0] : t \in {"fold", "check", "call", "allin", "muck"}}
    \cup {[type |-> "raise", amount |-> a] : a \in AmountInputs}
    \cup {[type |-> "bet", amount |-> 20]}
NameInputs == {<<>>, <<" ", "a">>}

\* ------------------------------------------------------------------ helpers
Min(S) == CHOOSE x \in S : \A y \in S : x <= y
Max(S) == CHOOSE x \in S : \A y \in S : x >= y
MinOf(a, b) == IF a <= b THEN a ELSE b
MaxOf(a, b) == IF a >= b THEN a ELSE b

RECURSIVE SumOver(_, _)
SumOver(f, S) ==
  IF S = {} THEN 0
  ELSE LET x == CHOOSE y \in S : TRUE IN f[x] + SumOver(f, S \ {x})

RECURSIVE DescSeq(_)
DescSeq(S) == IF S = {} THEN <<>> ELSE <<Max(S)>> \o DescSeq(S \ {Max(S)})

FirstN(q, n) == SubSeq(q, 1, MinOf(n, Len(q)))

\* ------------------------------------------------------------------ cards
\* A card is its index in makeDeck(): RANKS outer, SUITS inner, so card = 4*rank + suit.
Cards == 0 .. 51
makeDeck == [i \in 1 .. 52 |-> i - 1]
rankIndex(card) == card \div 4
suitOf(card) == card % 4

\* Results of shuffle(makeDeck()) the model draws from: any permutation is a possible
\* outcome; these are two of them (pop takes from the end).
DeckStride(k, c) == [i \in 1 .. 52 |-> (k * (i - 1) + c) % 52]
Decks == {makeDeck, DeckStride(7, 3)}

\* ------------------------------------------------------------------ evaluator
counts(cards) ==
  [r \in 0 .. 12 |-> Cardinality({i \in DOMAIN cards : rankIndex(cards[i]) = r})]
suitsOf(cards, s) == {rankIndex(cards[i]) : i \in {j \in DOMAIN cards : suitOf(cards[j]) = s}}
suitLen(cards, s) == Cardinality({j \in DOMAIN cards : suitOf(cards[j]) = s})

\* findStraight that ranks the wheel by its ace.
findStraightAceHigh(present) ==
  LET tops == {top \in 4 .. 12 : \A k \in 0 .. 4 : (top - k) \in present}
  IN IF tops # {} THEN Max(tops)
     ELSE IF {12, 0, 1, 2, 3} \subseteq present THEN 12
     ELSE NULL

findStraight(present) ==
  LET tops == {top \in 4 .. 12 : \A k \in 0 .. 4 : (top - k) \in present}
  IN IF tops # {} THEN Max(tops)
     ELSE IF {12, 0, 1, 2, 3} \subseteq present THEN 3
     ELSE NULL

evaluateBest7(cards) ==
  LET cnt == counts(cards)
      uniqueDesc == {r \in 0 .. 12 : cnt[r] > 0}
      flushSuits == {s \in 0 .. 3 : suitLen(cards, s) >= 5}
      sfSuits == {s \in flushSuits : findStraight(suitsOf(cards, s)) # NULL}
      quads == {r \in 0 .. 12 : cnt[r] = 4}
      threes == {r \in 0 .. 12 : cnt[r] >= 3}
      three == IF threes = {} THEN NULL ELSE Max(threes)
      fhPairs == {r \in 0 .. 12 : r # three /\ cnt[r] >= 2}
      pairs == {r \in 0 .. 12 : cnt[r] >= 2}
      p1 == IF pairs = {} THEN NULL ELSE Max(pairs)
      p2 == IF Cardinality(pairs) < 2 THEN NULL ELSE Max(pairs \ {p1})
      straightHigh == findStraight(uniqueDesc)
      kick(excl, n) == FirstN(DescSeq(uniqueDesc \ excl), n)
  IN IF Len(cards) < 5 THEN <<0>>
     ELSE IF sfSuits # {} THEN <<8, findStraight(suitsOf(cards, Min(sfSuits)))>>
     ELSE IF quads # {} THEN <<7, Max(quads)>> \o kick({Max(quads)}, 1)
     ELSE IF three # NULL /\ fhPairs # {} THEN <<6, three, Max(fhPairs)>>
     ELSE IF flushSuits # {} THEN <<5>> \o FirstN(DescSeq(suitsOf(cards, Min(flushSuits))), 5)
     ELSE IF straightHigh # NULL THEN <<4, straightHigh>>
     ELSE IF three # NULL THEN <<3, three>> \o kick({three}, 2)
     ELSE IF p1 # NULL /\ p2 # NULL THEN <<2, p1, p2>> \o kick({p1, p2}, 1)
     ELSE IF p1 # NULL THEN <<1, p1>> \o kick({p1}, 3)
     ELSE <<0>> \o kick({}, 5)

RECURSIVE compareFrom(_, _, _)
compareFrom(a, b, i) ==
  IF i > MaxOf(Len(a), Len(b)) THEN 0
  ELSE LET av == IF i <= Len(a) THEN a[i] ELSE 0
           bv == IF i <= Len(b) THEN b[i] ELSE 0
       IN IF av > bv THEN 1
          ELSE IF av < bv THEN -1
          ELSE compareFrom(a, b, i + 1)
compareScoreArrays(a, b) == compareFrom(a, b, 1)

\* ------------------------------------------------------------------ side pots
\* A pot is [amount, eligibleSeats]; eligibleSeats is kept as a set, the code's array
\* lists it in ascending seat order.
\* potAmountOf that counts the layer once instead of once per contributor.
potAmountOnce(min, contributors) == min

potAmountOf(min, contributors) == min * Cardinality(contributors)
\* eligibleOf that opens every layer to every seat still in the hand.
eligibleAll(contributors, activeMask) == {i \in Seats : activeMask[i]}

eligibleOf(contributors, activeMask) == {i \in contributors : activeMask[i]}

RECURSIVE buildPotsLoop(_, _, _)
buildPotsLoop(remaining, activeMask, pots) ==
  LET positive == {i \in Seats : remaining[i] > 0}
  IN IF positive = {} THEN pots
     ELSE LET min == Min({remaining[i] : i \in positive})
              pot == [amount |-> potAmountOf(min, positive),
                      eligibleSeats |-> eligibleOf(positive, activeMask)]
          IN buildPotsLoop([i \in Seats |-> IF i \in positive THEN remaining[i] - min
                                             ELSE remaining[i]],
                           activeMask, Append(pots, pot))
buildPots(contribs, activeMask) == buildPotsLoop(contribs, activeMask, <<>>)

\* winnersOf that pays every eligible seat with a hand, whatever its score.
winnersAll(p, seatHands) == {s \in p.eligibleSeats : seatHands[s] # <<>>}

\* seatHands[s] is the score of seat s, or <<>> where the code's map has no entry.
winnersOf(p, seatHands) ==
  LET cand == {s \in p.eligibleSeats : seatHands[s] # <<>>}
      best == IF cand = {} THEN NULL
              ELSE Min({s \in cand :
                          \A t \in cand : compareScoreArrays(seatHands[t], seatHands[s]) <= 0})
  IN IF best = NULL THEN {}
     ELSE {s \in cand : compareScoreArrays(seatHands[s], seatHands[best]) = 0}

\* remainderOf that leaves the chips a split cannot share out with the house.
remainderKept(amount, share, n) == 0

\* remainder = p.amount - share * winners.length
remainderOf(amount, share, n) == amount - share * n

RECURSIVE distributeFrom(_, _, _, _)
distributeFrom(pots, seatHands, k, results) ==
  IF k > Len(pots) THEN results
  ELSE LET p == pots[k]
           winners == winnersOf(p, seatHands)
       IN IF winners = {} THEN distributeFrom(pots, seatHands, k + 1, results)
          ELSE LET share == p.amount \div Cardinality(winners)
                   remainder == remainderOf(p.amount, share, Cardinality(winners))
                   first == Min(winners)
               IN distributeFrom(pots, seatHands, k + 1,
                    [s \in Seats |->
                       results[s] + (IF s \in winners THEN share ELSE 0)
                                  + (IF s = first /\ remainder > 0 THEN remainder ELSE 0)])
distributePots(pots, seatHands) ==
  distributeFrom(pots, seatHands, 1, [s \in Seats |-> 0])

\* ------------------------------------------------------------------ table state
VARIABLES
  state,      \* the `state` object: the table and the hand in progress
  conn,       \* per socket: "new" (never connected), "open", "closed"
  username,   \* socket.data.username; <<>> stands for null and for ""
  timers,     \* pending post-showdown setTimeout callbacks
  crashed,    \* TRUE once a handler has thrown (the process has gone down)
  nHands, nActions, nSits, nLeaves,   \* counters that bound a behaviour
  handClean,  \* history: no seat was taken or vacated since the last startHand
  preHand,    \* history: every seat's stack when the last startHand was called
  bbSeat,     \* history: the seat that posted the big blind of the last startHand
  acted,      \* history: the seats with an accepted action in this betting round
  call        \* a pure helper applied on its own: its arguments and its result

vars == <<state, conn, username, timers, crashed, nHands, nActions, nSits, nLeaves,
          handClean, preHand, bbSeat, acted, call>>

EmptySeat == [socketId |-> NoSocket, chips |-> 0]
Occupied(st, i) == st.seats[i] # EmptySeat
chipsOf(st) == [i \in Seats |-> st.seats[i].chips]

InitialState ==
  [seats |-> [i \in Seats |-> EmptySeat],
   ownerSocket |-> NoSocket,
   dealer |-> -1,
   deck |-> <<>>,
   community |-> <<>>,
   phase |-> "idle",
   contributions |-> [i \in Seats |-> 0],
   currentBets |-> [i \in Seats |-> 0],
   folded |-> [i \in Seats |-> FALSE],
   holeCards |-> [i \in Seats |-> <<>>],
   activeSeats |-> <<>>,
   currentTurnSeat |-> NULL,
   minimumRaise |-> BIG_BLIND,
   lastAggressor |-> NULL,
   potTotal |-> 0]

\* ------------------------------------------------------------------ view projection
\* The `hole` field of seat idx in the snapshot for socketId: <<>> when the field is
\* absent, the real cards, or the placeholders.
\* The placeholder '??' is coded as 52, a value no card has.
Hidden == <<52, 52>>
\* holeView with the phase test widened to every phase in which cards are out.
holeViewLeaky(st, socketId, idx) ==
  IF ~Occupied(st, idx) THEN <<>>
  ELSE IF st.holeCards[idx] = <<>> THEN <<>>
  ELSE IF st.seats[idx].socketId = socketId \/ st.phase \in {"showdown", "betting"}
       THEN st.holeCards[idx]
  ELSE Hidden

holeView(st, socketId, idx) ==
  IF ~Occupied(st, idx) THEN <<>>
  ELSE IF st.holeCards[idx] = <<>> THEN <<>>
  ELSE IF st.seats[idx].socketId = socketId \/ st.phase = "showdown" THEN st.holeCards[idx]
  ELSE Hidden
publicStateForSocket(st, socketId) ==
  [seats |-> [idx \in Seats |->
                IF ~Occupied(st, idx) THEN [present |-> FALSE]
                ELSE [present |-> TRUE,
                      chips |-> st.seats[idx].chips,
                      contribution |-> st.contributions[idx],
                      currentBet |-> st.currentBets[idx],
                      folded |-> st.folded[idx],
                      hole |-> holeView(st, socketId, idx)]],
   ownerSet |-> st.ownerSocket # NoSocket,
   ownerSocket |-> st.ownerSocket,
   dealer |-> st.dealer,
   phase |-> st.phase,
   community |-> st.community,
   potTotal |-> st.potTotal,
   currentTurnSeat |-> st.currentTurnSeat,
   minimumRaise |-> st.minimumRaise]

\* The older lobby server's projection (publicTableStateForSocket): only the seat's
\* own socket ever gets the cards.
tableHoleView(st, socketId, idx) ==
  IF ~Occupied(st, idx) THEN <<>>
  ELSE IF st.holeCards[idx] = <<>> THEN <<>>
  ELSE IF st.seats[idx].socketId = socketId THEN st.holeCards[idx]
  ELSE [k \in DOMAIN st.holeCards[idx] |-> 52]

\* ------------------------------------------------------------------ seat helpers
seatIndexForSocket(st, socketId) ==
  LET mine == {i \in Seats : Occupied(st, i) /\ st.seats[i].socketId = socketId}
  IN IF mine = {} THEN -1 ELSE Min(mine)

\* The first seat (from + step) % MAX_SEATS, step = 1 .. MAX_SEATS, that is in okSeats;
\* NULL when none does.
firstClockwise(from, okSeats) ==
  LET steps == {step \in 1 .. MAX_SEATS : ((from + step) % MAX_SEATS) \in okSeats}
  IN IF steps = {} THEN NULL ELSE (from + Min(steps)) % MAX_SEATS

resetHand(st) ==
  [st EXCEPT !.deck = <<>>,
             !.community = <<>>,
             !.phase = "idle",
             !.contributions = [i \in Seats |-> 0],
             !.currentBets = [i \in Seats |-> 0],
             !.folded = [i \in Seats |-> FALSE],
             !.holeCards = [i \in Seats |-> <<>>],
             !.activeSeats = <<>>,
             !.currentTurnSeat = NULL,
             !.minimumRaise = BIG_BLIND,
             !.lastAggressor = NULL,
             !.potTotal = 0]

\* ------------------------------------------------------------------ startHand
hasChips(st, idx) == Occupied(st, idx) /\ st.seats[idx].chips > 0
seatedWithChips(st) == {i \in Seats : hasChips(st, i)}

\* rotateDealer that leaves the button where it is.
rotateDealerStay(st) == st.dealer

rotateDealer(st) ==
  LET idx == firstClockwise(st.dealer, seatedWithChips(st))
  IN IF idx = NULL THEN st.dealer ELSE idx

\* nextOccupied(null) adds the steps to null, which JavaScript takes as 0.
nextOccupied(st, from) ==
  firstClockwise(IF from = NULL THEN 0 ELSE from, seatedWithChips(st))

blindAmount(st, idx, blind) == MinOf(st.seats[idx].chips, blind)
postBlind(st, idx, amt) ==
  [st EXCEPT !.seats[idx].chips = @ - amt,
             !.contributions[idx] = amt,
             !.currentBets[idx] = amt,
             !.potTotal = @ + amt]

\* Seats dealt in, clockwise from the seat after the dealer.
RECURSIVE dealOrderFrom(_, _)
dealOrderFrom(st, step) ==
  IF step > MAX_SEATS THEN <<>>
  ELSE LET idx == (st.dealer + step) % MAX_SEATS
       IN (IF Occupied(st, idx) /\ st.seats[idx].chips >= 0 THEN <<idx>> ELSE <<>>)
          \o dealOrderFrom(st, step + 1)
dealOrder(st) == dealOrderFrom(st, 1)

dealHoleCards(st, order) ==
  LET L == Len(st.deck)
      pos(idx) == CHOOSE k \in 1 .. Len(order) : order[k] = idx
      inOrder(idx) == \E k \in 1 .. Len(order) : order[k] = idx
  IN [st EXCEPT
        !.holeCards = [idx \in Seats |->
                         IF inOrder(idx)
                         THEN <<st.deck[L - 2 * (pos(idx) - 1)],
                                st.deck[L - 2 * (pos(idx) - 1) - 1]>>
                         ELSE st.holeCards[idx]],
        !.deck = SubSeq(st.deck, 1, L - 2 * Len(order))]

\* startHandGate that lets a single seat with chips through.
startHandGateOne(st) == Cardinality(seatedWithChips(st)) >= 1

startHandGate(st) == Cardinality(seatedWithChips(st)) >= 2

startHand(st, shuffled) ==
  IF ~startHandGate(st)
  THEN [ok |-> FALSE, error |-> "need at least 2 players with chips", state |-> st]
  ELSE
    LET s1 == [resetHand(st) EXCEPT !.deck = shuffled]
        s2 == [s1 EXCEPT !.dealer = rotateDealer(s1)]
        sb == nextOccupied(s2, s2.dealer)
        bb == nextOccupied(s2, sb)
    IN IF sb = NULL \/ bb = NULL
       THEN [ok |-> FALSE, error |-> "not enough players for blinds", state |-> s2]
       ELSE
         LET s3 == postBlind(s2, sb, blindAmount(s2, sb, SMALL_BLIND))
             s4 == postBlind(s3, bb, blindAmount(s3, bb, BIG_BLIND))
             order == dealOrder(s4)
             s5 == dealHoleCards(s4, order)
             s6 == [s5 EXCEPT !.activeSeats = order,
                              !.phase = "betting",
                              !.currentTurnSeat = nextOccupied(s5, bb),
                              !.minimumRaise = BIG_BLIND,
                              !.lastAggressor = NULL]
         IN [ok |-> TRUE, error |-> "", state |-> s6]

\* ------------------------------------------------------------------ betting
advanceToNextActive(st, fromIdx) ==
  firstClockwise(fromIdx, {idx \in Seats : Occupied(st, idx) /\ ~st.folded[idx]})

activePlayersRemaining(st) == SelectSeq(st.activeSeats, LAMBDA idx : ~st.folded[idx])

highestCurrentBet(st) == Max({st.currentBets[i] : i \in Seats})

commit(st, seatIdx, put) ==
  [st EXCEPT !.seats[seatIdx].chips = @ - put,
             !.currentBets[seatIdx] = @ + put,
             !.contributions[seatIdx] = @ + put,
             !.potTotal = @ + put]

\* The gate of performAction: "" when the action is let through, else the error.
\* actionGate without the turn test.
actionGateNoTurn(st, seatIdx) ==
  IF seatIdx = -1 THEN "not seated"
  ELSE IF st.phase # "betting" THEN "not in betting phase"
  ELSE IF st.folded[seatIdx] THEN "already folded"
  ELSE ""

actionGate(st, seatIdx) ==
  IF seatIdx = -1 THEN "not seated"
  ELSE IF st.phase # "betting" THEN "not in betting phase"
  ELSE IF st.currentTurnSeat # seatIdx THEN "not your turn"
  ELSE IF st.folded[seatIdx] THEN "already folded"
  ELSE ""

\* The raise an all-in makes the new minimum.
allinMinimumRaise(st, raiseAmt) ==
  IF raiseAmt > 0 THEN MaxOf(st.minimumRaise, raiseAmt) ELSE st.minimumRaise
\* What a bet/raise of amt puts in.
betTotalPut(chips, toCall, amt) == MinOf(chips, toCall + amt)

\* The minimum-raise test of bet/raise; below it, the test that lets every amount by.
raiseBelowMinimumNever(st, amt) == FALSE

raiseBelowMinimum(st, amt) == amt < st.minimumRaise

\* betOrRaise with the minimum-raise test made after the chips have moved.
betOrRaiseLate(st, seatIdx, amount) ==
  LET player == st.seats[seatIdx]
      toCall == highestCurrentBet(st) - st.currentBets[seatIdx]
      amt == MaxOf(0, amount)
      totalPut == betTotalPut(player.chips, toCall, amt)
  IN IF amt <= 0 THEN [error |-> "invalid amount", state |-> st]
     ELSE IF totalPut <= toCall THEN [error |-> "raise amount too small", state |-> st]
     ELSE IF amt < st.minimumRaise
          THEN [error |-> "raise below minimum", state |-> commit(st, seatIdx, totalPut)]
     ELSE [error |-> "",
           state |-> [commit(st, seatIdx, totalPut) EXCEPT
                        !.minimumRaise = MaxOf(st.minimumRaise, amt),
                        !.lastAggressor = seatIdx]]

\* The bet/raise branch: [error, state].
betOrRaise(st, seatIdx, amount) ==
  LET player == st.seats[seatIdx]
      toCall == highestCurrentBet(st) - st.currentBets[seatIdx]
      amt == MaxOf(0, amount)
      totalPut == betTotalPut(player.chips, toCall, amt)
  IN IF amt <= 0 THEN [error |-> "invalid amount", state |-> st]
     ELSE IF totalPut <= toCall THEN [error |-> "raise amount too small", state |-> st]
     ELSE IF raiseBelowMinimum(st, amt)
          THEN [error |-> "raise below minimum", state |-> st]
     ELSE [error |-> "",
           state |-> [commit(st, seatIdx, totalPut) EXCEPT
                        !.minimumRaise = MaxOf(st.minimumRaise, amt),
                        !.lastAggressor = seatIdx]]

\* The branch of performAction for the action's type: [error, state], error "" when
\* the action is applied.
applyAction(st, seatIdx, action) ==
  LET player == st.seats[seatIdx]
      highest == highestCurrentBet(st)
      toCall == highest - st.currentBets[seatIdx]
  IN CASE action.type = "fold" ->
            [error |-> "", state |-> [st EXCEPT !.folded[seatIdx] = TRUE]]
       [] action.type = "check" ->
            IF st.currentBets[seatIdx] # highest
            THEN [error |-> "cannot check; need to call or fold", state |-> st]
            ELSE [error |-> "", state |-> st]
       [] action.type = "call" ->
            [error |-> "", state |-> commit(st, seatIdx, MinOf(toCall, player.chips))]
       [] action.type \in {"bet", "raise"} -> betOrRaise(st, seatIdx, action.amount)
       [] action.type = "allin" ->
            LET totalPut == player.chips
                raiseAmt == totalPut - toCall
            IN [error |-> "",
                state |-> [commit(st, seatIdx, totalPut) EXCEPT
                             !.minimumRaise = allinMinimumRaise(st, raiseAmt),
                             !.lastAggressor = seatIdx]]
       [] OTHER -> [error |-> "unknown action", state |-> st]

\* bettingRoundComplete reads state.seats[idx].chips of every non-folded active seat
\* in turn: on a vacated seat (null) that read throws a TypeError.
\* roundScan that does not compare the bets.
RECURSIVE roundScanLoose(_, _, _, _)
roundScanLoose(st, active, k, maxBet) ==
  IF k > Len(active) THEN "true"
  ELSE IF ~Occupied(st, active[k]) THEN "throw"
  ELSE roundScanLoose(st, active, k + 1, maxBet)

RECURSIVE roundScan(_, _, _, _)
roundScan(st, active, k, maxBet) ==
  IF k > Len(active) THEN "true"
  ELSE IF ~Occupied(st, active[k]) THEN "throw"
  ELSE IF st.seats[active[k]].chips > 0 /\ st.currentBets[active[k]] # maxBet THEN "false"
  ELSE roundScan(st, active, k + 1, maxBet)
bettingRoundComplete(st) ==
  LET active == activePlayersRemaining(st)
  IN IF Len(active) <= 1 THEN "true"
     ELSE roundScan(st, active, 1, highestCurrentBet(st))

firstAfterDealer(st) ==
  firstClockwise(st.dealer, {idx \in Seats : Occupied(st, idx) /\ ~st.folded[idx]})

\* dealStreet that burns no card.
dealStreetNoBurn(st, n) ==
  LET L == Len(st.deck)
  IN [st EXCEPT !.community = @ \o [k \in 1 .. n |-> st.deck[L - k + 1]],
                !.deck = SubSeq(st.deck, 1, L - n)]

\* deck.pop() once for the burn, then n pops onto the board.
dealStreet(st, n) ==
  LET L == Len(st.deck)
  IN [st EXCEPT !.community = @ \o [k \in 1 .. n |-> st.deck[L - k]],
                !.deck = SubSeq(st.deck, 1, L - 1 - n)]

\* activeMaskOf that forgets the folded flags.
activeMaskAll(st) ==
  [i \in Seats |-> \E k \in 1 .. Len(st.activeSeats) : st.activeSeats[k] = i]

activeMaskOf(st) ==
  [i \in Seats |-> (\E k \in 1 .. Len(st.activeSeats) : st.activeSeats[k] = i)
                   /\ ~st.folded[i]]
handMapOf(st, activeMask) ==
  [i \in Seats |-> IF st.holeCards[i] # <<>> /\ activeMask[i]
                   THEN evaluateBest7(st.holeCards[i] \o st.community)
                   ELSE <<>>]
applyAwards(st, awards) ==
  [st EXCEPT !.seats = [i \in Seats |->
                          IF Occupied(st, i)
                          THEN [st.seats[i] EXCEPT !.chips = @ + awards[i]]
                          ELSE st.seats[i]]]
showdown(st) ==
  LET s1 == [st EXCEPT !.phase = "showdown"]
      activeMask == activeMaskOf(s1)
      pots == buildPots(s1.contributions, activeMask)
      awards == distributePots(pots, handMapOf(s1, activeMask))
  IN [applyAwards(s1, awards) EXCEPT !.potTotal = 0]

\* The body of `if (bettingRoundComplete())`: [state, timer], timer TRUE when the
\* post-showdown setTimeout was scheduled.
advanceStreet(st) ==
  LET s1 == [st EXCEPT !.currentBets = [i \in Seats |-> 0],
                       !.minimumRaise = BIG_BLIND,
                       !.lastAggressor = NULL]
      n == Len(s1.community)
      dealt(k) == LET s2 == [dealStreet(s1, k) EXCEPT !.phase = "betting"]
                  IN [s2 EXCEPT !.currentTurnSeat = firstAfterDealer(s2)]
  IN IF n = 0 THEN [state |-> dealt(3), timer |-> FALSE]
     ELSE IF n = 3 THEN [state |-> dealt(1), timer |-> FALSE]
     ELSE IF n = 4 THEN [state |-> dealt(1), timer |-> FALSE]
     ELSE [state |-> showdown(s1), timer |-> TRUE]

\* performAction(socketId, action): [ok, error, state, timer, threw].
performAction(st, socketId, action) ==
  LET seatIdx == seatIndexForSocket(st, socketId)
      gate == actionGate(st, seatIdx)
  IN IF gate # ""
     THEN [ok |-> FALSE, error |-> gate, state |-> st, timer |-> FALSE, threw |-> FALSE]
     ELSE
       LET r == applyAction(st, seatIdx, action)
       IN IF r.error # ""
          THEN [ok |-> FALSE, error |-> r.error, state |-> r.state,
                timer |-> FALSE, threw |-> FALSE]
          ELSE
            LET s1 == [r.state EXCEPT
                         !.currentTurnSeat = advanceToNextActive(r.state, seatIdx)]
                done == bettingRoundComplete(s1)
            IN IF done = "throw"
               THEN [ok |-> FALSE, error |-> "TypeError", state |-> s1,
                     timer |-> FALSE, threw |-> TRUE]
               ELSE IF done = "true"
               THEN LET a == advanceStreet(s1)
                    IN [ok |-> TRUE, error |-> "", state |-> a.state,
                        timer |-> a.timer, threw |-> FALSE]
               ELSE [ok |-> TRUE, error |-> "", state |-> s1,
                     timer |-> FALSE, threw |-> FALSE]

\* ------------------------------------------------------------------ socket handlers
RECURSIVE trimLeft(_)
trimLeft(name) ==
  IF name # <<>> /\ Head(name) = " " THEN trimLeft(Tail(name)) ELSE name
RECURSIVE trimRight(_)
trimRight(name) ==
  IF name # <<>> /\ name[Len(name)] = " "
  THEN trimRight(SubSeq(name, 1, Len(name) - 1)) ELSE name
\* name.trim().slice(0, 32)
cleanName(name) == FirstN(trimRight(trimLeft(name)), 32)

\* Math.max(MIN_BUYIN, Math.min(MAX_BUYIN, Number(buyIn) || MIN_BUYIN))
clampBuyIn(buyIn) ==
  MaxOf(MIN_BUYIN, MinOf(MAX_BUYIN, IF buyIn = 0 THEN MIN_BUYIN ELSE buyIn))

vacate(st, idx) == [st EXCEPT !.seats[idx] = EmptySeat]

Init ==
  /\ state = InitialState
  /\ conn = [c \in Sockets |-> "new"]
  /\ username = [c \in Sockets |-> <<>>]
  /\ timers = 0
  /\ crashed = FALSE
  /\ nHands = 0
  /\ nActions = 0
  /\ nSits = 0
  /\ nLeaves = 0
  /\ handClean = FALSE
  /\ preHand = [i \in Seats |-> 0]
  /\ bbSeat = NULL
  /\ acted = {}
  /\ call = [fn |-> "none"]

Live(c) == ~crashed /\ conn[c] = "open"

Connect(c) ==
  /\ ~crashed
  /\ conn[c] = "new"
  /\ conn' = [conn EXCEPT ![c] = "open"]
  /\ UNCHANGED <<state, username, timers, crashed, nHands, nActions, nSits, nLeaves,
                 handClean, preHand, bbSeat, acted, call>>

\* socket.on('set username'): the name is rejected when empty, else trimmed and kept.
SetUsername(c, name) ==
  /\ Live(c)
  /\ username' = IF name = <<>> THEN username
                 ELSE [username EXCEPT ![c] = cleanName(name)]
  /\ UNCHANGED <<state, conn, timers, crashed, nHands, nActions, nSits, nLeaves,
                 handClean, preHand, bbSeat, acted, call>>

BecomeOwner(c) ==
  /\ Live(c)
  /\ state' = [state EXCEPT !.ownerSocket = c]
  /\ UNCHANGED <<conn, username, timers, crashed, nHands, nActions, nSits, nLeaves,
                 handClean, preHand, bbSeat, acted, call>>

\* socket.on('sit'): the error, "" when the seat is taken.
sitError(st, name, seat) ==
  IF name = <<>> THEN "set username first"
  ELSE IF seat < 0 \/ seat >= MAX_SEATS THEN "invalid seat"
  ELSE IF Occupied(st, seat) THEN "seat occupied"
  ELSE ""

Sit(c, seat, buyIn) ==
  /\ Live(c)
  /\ IF sitError(state, username[c], seat) # ""
     THEN UNCHANGED <<state, nSits, handClean>>
     ELSE /\ nSits < MaxSits
          /\ state' = [state EXCEPT
                         !.seats[seat] = [socketId |-> c, chips |-> clampBuyIn(buyIn)]]
          /\ nSits' = nSits + 1
          /\ handClean' = FALSE
  /\ UNCHANGED <<conn, username, timers, crashed, nHands, nActions, nLeaves,
                 preHand, bbSeat, acted, call>>

Stand(c) ==
  /\ Live(c)
  /\ \E idx \in {seatIndexForSocket(state, c)} :
        IF idx # -1
        THEN /\ nLeaves < MaxLeaves
             /\ state' = vacate(state, idx)
             /\ nLeaves' = nLeaves + 1
             /\ handClean' = FALSE
        ELSE UNCHANGED <<state, nLeaves, handClean>>
  /\ UNCHANGED <<conn, username, timers, crashed, nHands, nActions, nSits,
                 preHand, bbSeat, acted, call>>

\* socket.on('kick'): the error, "" when the command is carried out.
kickError(st, socketId, seat) ==
  IF socketId # st.ownerSocket THEN "not owner"
  ELSE IF seat < 0 \/ seat >= MAX_SEATS THEN "invalid seat"
  ELSE ""

Kick(c, seat) ==
  /\ Live(c)
  /\ IF kickError(state, c, seat) = "" /\ Occupied(state, seat)
     THEN /\ nLeaves < MaxLeaves
          /\ state' = vacate(state, seat)
          /\ nLeaves' = nLeaves + 1
          /\ handClean' = FALSE
     ELSE UNCHANGED <<state, nLeaves, handClean>>
  /\ UNCHANGED <<conn, username, timers, crashed, nHands, nActions, nSits,
                 preHand, bbSeat, acted, call>>

\* The seat startHand takes the big blind from: bb of lines 332-333.
bigBlindSeat(st) ==
  LET s1 == resetHand(st)
      s2 == [s1 EXCEPT !.dealer = rotateDealer(s1)]
  IN nextOccupied(s2, nextOccupied(s2, s2.dealer))

\* A street was dealt or the showdown entered between st and next.
streetAdvanced(st, next) ==
  \/ Len(next.community) > Len(st.community)
  \/ (st.phase = "betting" /\ next.phase = "showdown")

\* socket.on('start hand'): [ok, error, state]
startHandCommand(st, socketId, shuffled) ==
  IF socketId # st.ownerSocket
  THEN [ok |-> FALSE, error |-> "not owner", state |-> st]
  ELSE startHand(st, shuffled)

StartHand(c, shuffled) ==
  /\ Live(c)
  /\ \E r \in {startHandCommand(state, c, shuffled)} :
        /\ r.ok => nHands < MaxHands
        /\ state' = r.state
        /\ nHands' = IF r.ok THEN nHands + 1 ELSE nHands
        /\ handClean' = IF r.ok THEN TRUE ELSE handClean
        /\ preHand' = IF r.ok THEN chipsOf(state) ELSE preHand
        /\ bbSeat' = IF r.ok THEN bigBlindSeat(state) ELSE bbSeat
        /\ acted' = IF r.ok THEN {} ELSE acted
  /\ UNCHANGED <<conn, username, timers, crashed, nActions, nSits, nLeaves, call>>

\* socket.on('action')
Action(c, action) ==
  /\ Live(c)
  /\ \E r \in {performAction(state, c, action)} :
        /\ r.ok => nActions < MaxActions
        /\ state' = r.state
        /\ timers' = IF r.timer THEN timers + 1 ELSE timers
        /\ crashed' = r.threw
        /\ nActions' = IF r.ok THEN nActions + 1 ELSE nActions
        /\ acted' = IF ~r.ok THEN acted
                    ELSE IF streetAdvanced(state, r.state) THEN {}
                    ELSE acted \cup {seatIndexForSocket(state, c)}
  /\ UNCHANGED <<conn, username, nHands, nSits, nLeaves, handClean, preHand, bbSeat, call>>

Disconnect(c) ==
  /\ Live(c)
  /\ \E idx \in {seatIndexForSocket(state, c)} :
        /\ idx # -1 => nLeaves < MaxLeaves
        /\ state' = [(IF idx # -1 THEN vacate(state, idx) ELSE state) EXCEPT
                       !.ownerSocket = IF @ = c THEN NoSocket ELSE @]
        /\ nLeaves' = IF idx # -1 THEN nLeaves + 1 ELSE nLeaves
        /\ handClean' = IF idx # -1 THEN FALSE ELSE handClean
  /\ conn' = [conn EXCEPT ![c] = "closed"]
  /\ UNCHANGED <<username, timers, crashed, nHands, nActions, nSits,
                 preHand, bbSeat, acted, call>>

\* The callback of the setTimeout scheduled at showdown.
TimerFires ==
  /\ ~crashed
  /\ timers > 0
  /\ timers' = timers - 1
  /\ state' = [state EXCEPT !.phase = "idle"]
  /\ UNCHANGED <<conn, username, crashed, nHands, nActions, nSits, nLeaves,
                 handClean, preHand, bbSeat, acted, call>>

Next ==
  \/ \E c \in Sockets : Connect(c)
  \/ \E c \in Sockets, name \in NameInputs : SetUsername(c, name)
  \/ \E c \in OwnerInputs : BecomeOwner(c)
  \/ \E c \in Sockets, seat \in SeatInputs : \E buyIn \in BuyInInputs(c) : Sit(c, seat, buyIn)
  \/ \E c \in Sockets : Stand(c)
  \/ \E c \in Sockets, seat \in SeatInputs : Kick(c, seat)
  \/ \E c \in Sockets, shuffled \in Decks : StartHand(c, shuffled)
  \/ \E c \in Sockets, action \in ActionInputs : Action(c, action)
  \/ \E c \in Sockets : Disconnect(c)
  \/ TimerFires

Spec == Init /\ [][Next]_vars

\* ------------------------------------------------------------------ buildPots on its own
\* buildPots is a pure function: it is applied to every contribution vector over the
\* seats with entries in 0 .. MaxContrib and every eligibility mask.
PotInputs == [Seats -> 0 .. MaxContrib]
MaskInputs == [Seats -> BOOLEAN]

InitPots ==
  /\ state = InitialState
  /\ conn = [c \in Sockets |-> "new"]
  /\ username = [c \in Sockets |-> <<>>]
  /\ timers = 0
  /\ crashed = FALSE
  /\ nHands = 0
  /\ nActions = 0
  /\ nSits = 0
  /\ nLeaves = 0
  /\ handClean = FALSE
  /\ preHand = [i \in Seats |-> 0]
  /\ bbSeat = NULL
  /\ acted = {}
  /\ \E contribs \in PotInputs, activeMask \in MaskInputs :
        call = [fn |-> "buildPots", contribs |-> contribs, activeMask |-> activeMask,
                done |-> FALSE, pots |-> <<>>]

CallBuildPots ==
  /\ call.fn = "buildPots"
  /\ ~call.done
  /\ call' = [call EXCEPT !.done = TRUE,
                          !.pots = buildPots(call.contribs, call.activeMask)]
  /\ UNCHANGED <<state, conn, username, timers, crashed, nHands, nActions, nSits,
                 nLeaves, handClean, preHand, bbSeat, acted>>

NextPots == CallBuildPots

SpecPots == InitPots /\ [][NextPots]_vars

\* ------------------------------------------------------------------ the showdown payout on its own
\* The showdown branch feeds buildPots' result and the scores of the seats still in
\* the hand to distributePots.  The pair is applied to every contribution vector
\* over AwardSeats (0 elsewhere), every mask over AwardSeats and every assignment of
\* the scores in ScoreInputs.
AwardSeats == {0, 1, 2, 4}
ScoreInputs == {<<0, 12, 10, 8, 6, 4>>, <<1, 5, 12, 10, 8>>}
AwardContribs ==
  {[i \in Seats |-> IF i \in AwardSeats THEN f[i] ELSE 0] :
     f \in [AwardSeats -> 0 .. MaxContrib]}
AwardMasks ==
  {[i \in Seats |-> i \in live] : live \in SUBSET AwardSeats}
AwardScores ==
  {[i \in Seats |-> IF i \in AwardSeats THEN f[i] ELSE <<>>] :
     f \in [AwardSeats -> ScoreInputs]}
\* handMap of the showdown branch: a score for the seats of the mask only.
seatHandsOf(scores, activeMask) == [i \in Seats |-> IF activeMask[i] THEN scores[i] ELSE <<>>]

InitAward ==
  /\ state = InitialState
  /\ conn = [c \in Sockets |-> "new"]
  /\ username = [c \in Sockets |-> <<>>]
  /\ timers = 0
  /\ crashed = FALSE
  /\ nHands = 0
  /\ nActions = 0
  /\ nSits = 0
  /\ nLeaves = 0
  /\ handClean = FALSE
  /\ preHand = [i \in Seats |-> 0]
  /\ bbSeat = NULL
  /\ acted = {}
  /\ \E contribs \in AwardContribs, activeMask \in AwardMasks, scores \in AwardScores :
        call = [fn |-> "award", contribs |-> contribs, activeMask |-> activeMask,
                seatHands |-> seatHandsOf(scores, activeMask),
                done |-> FALSE, pots |-> <<>>, awards |-> [i \in Seats |-> 0]]

CallAward ==
  /\ call.fn = "award"
  /\ ~call.done
  /\ \E pots \in {buildPots(call.contribs, call.activeMask)} :
        call' = [call EXCEPT !.done = TRUE,
                             !.pots = pots,
                             !.awards = distributePots(pots, call.seatHands)]
  /\ UNCHANGED <<state, conn, username, timers, crashed, nHands, nActions, nSits,
                 nLeaves, handClean, preHand, bbSeat, acted>>

NextAward == CallAward

SpecAward == InitAward /\ [][NextAward]_vars

\* ------------------------------------------------------------------ evaluateBest7 on its own
\* evaluateBest7 is applied to every hand of 5 to 7 cards out of EvalCards:
\* A (spades, hearts, diamonds), K diamonds, 6 hearts, 5 (spades, clubs),
\* 4 (spades, hearts), 3 (spades, diamonds), 2 (spades, hearts).
EvalCards == {48, 49, 50, 46, 17, 12, 15, 8, 9, 4, 6, 0, 1}
EvalSizes == 5 .. 7
\* The cards of a set as an array, lowest card first.
RECURSIVE AscSeq(_)
AscSeq(S) == IF S = {} THEN <<>> ELSE <<Min(S)>> \o AscSeq(S \ {Min(S)})
EvalHands == {AscSeq(h) : h \in {g \in SUBSET EvalCards : Cardinality(g) \in EvalSizes}}

InitEval ==
  /\ state = InitialState
  /\ conn = [c \in Sockets |-> "new"]
  /\ username = [c \in Sockets |-> <<>>]
  /\ timers = 0
  /\ crashed = FALSE
  /\ nHands = 0
  /\ nActions = 0
  /\ nSits = 0
  /\ nLeaves = 0
  /\ handClean = FALSE
  /\ preHand = [i \in Seats |-> 0]
  /\ bbSeat = NULL
  /\ acted = {}
  /\ \E cards \in EvalHands :
        call = [fn |-> "evaluateBest7", cards |-> cards, done |-> FALSE, score |-> <<>>]

CallEvaluateBest7 ==
  /\ call.fn = "evaluateBest7"
  /\ ~call.done
  /\ call' = [call EXCEPT !.done = TRUE, !.score = evaluateBest7(call.cards)]
  /\ UNCHANGED <<state, conn, username, timers, crashed, nHands, nActions, nSits,
                 nLeaves, handClean, preHand, bbSeat, acted>>

NextEval == CallEvaluateBest7

SpecEval == InitEval /\ [][NextEval]_vars

\* ------------------------------------------------------------------ startHand on its own
\* startHand is applied to idle tables whose seats 0, 2 and 4 are empty or hold a
\* stack left over from earlier hands (below a blind, between the blinds, or large),
\* with the button at any earlier position.
BlindSeats == {0, 2, 4}
BlindStacks == {0, 5, 15, 100}
BlindDealers == {-1, 0, 3}
BlindSockets == [i \in BlindSeats |-> IF i = 0 THEN "s1" ELSE IF i = 2 THEN "s2" ELSE "s3"]
BlindTables ==
  {[InitialState EXCEPT
      !.seats = [i \in Seats |->
                   IF i \in occ
                   THEN [socketId |-> BlindSockets[i], chips |-> stacks[i]]
                   ELSE EmptySeat],
      !.dealer = d,
      !.ownerSocket = "s1"] :
     occ \in SUBSET BlindSeats, stacks \in [BlindSeats -> BlindStacks], d \in BlindDealers}

InitBlinds ==
  /\ state \in BlindTables
  /\ conn = [c \in Sockets |-> "open"]
  /\ username = [c \in Sockets |-> <<"a">>]
  /\ timers = 0
  /\ crashed = FALSE
  /\ nHands = 0
  /\ nActions = 0
  /\ nSits = 0
  /\ nLeaves = 0
  /\ handClean = FALSE
  /\ preHand = [i \in Seats |-> 0]
  /\ bbSeat = NULL
  /\ acted = {}
  /\ call = [fn |-> "startHand", done |-> FALSE, ok |-> FALSE]

CallStartHand ==
  /\ call.fn = "startHand"
  /\ ~call.done
  /\ \E shuffled \in Decks :
        \E r \in {startHand(state, shuffled)} :
           /\ state' = r.state
           /\ call' = [call EXCEPT !.done = TRUE, !.ok = r.ok]
           /\ nHands' = IF r.ok THEN nHands + 1 ELSE nHands
           /\ handClean' = r.ok
           /\ preHand' = chipsOf(state)
  /\ UNCHANGED <<conn, username, timers, crashed, nActions, nSits, nLeaves, bbSeat, acted>>

NextBlinds == CallStartHand

SpecBlinds == InitBlinds /\ [][NextBlinds]_vars

\* ------------------------------------------------------------------ undisturbed hands
\* A table with both clients connected, named and seated (s1, the owner, at seat 0
\* with the minimum buy-in, s2 at seat 2), and nobody sitting down, standing up,
\* being kicked or disconnecting from then on. The setTimeout callback runs once
\* scheduled, and a client whose action the server would accept sends one in the end.
SeatedTable ==
  [InitialState EXCEPT
     !.seats = [i \in Seats |->
                  IF i = 0 THEN [socketId |-> "s1", chips |-> clampBuyIn(0)]
                  ELSE IF i = 2 THEN [socketId |-> "s2", chips |-> clampBuyIn(200)]
                  ELSE EmptySeat],
     !.ownerSocket = "s1"]

InitLive ==
  /\ state = SeatedTable
  /\ conn = [c \in Sockets |-> "open"]
  /\ username = [c \in Sockets |-> cleanName(<<" ", "a">>)]
  /\ timers = 0
  /\ crashed = FALSE
  /\ nHands = 0
  /\ nActions = 0
  /\ nSits = MaxSits
  /\ nLeaves = 0
  /\ handClean = FALSE
  /\ preHand = [i \in Seats |-> 0]
  /\ bbSeat = NULL
  /\ acted = {}
  /\ call = [fn |-> "none"]

TurnActs == \E c \in Sockets, action \in ActionInputs : Action(c, action)

\* Some client has an action the server would accept: this is ENABLED <<TurnActs>>_vars
\* (a rejected action changes no variable), read off performAction's result.
CanAct ==
  /\ nActions < MaxActions
  /\ \E c \in Sockets, action \in ActionInputs :
        Live(c) /\ performAction(state, c, action).ok

\* WF_vars(TurnActs), written out over CanAct.
TurnFairness == []<>(~CanAct) \/ []<><<TurnActs>>_vars

NextLive ==
  \/ \E c \in Sockets, shuffled \in Decks : StartHand(c, shuffled)
  \/ \E c \in Sockets, action \in ActionInputs : Action(c, action)
  \/ TimerFires

SpecLive == InitLive /\ [][NextLive]_vars /\ WF_vars(TimerFires) /\ TurnFairness

\* ------------------------------------------------------------------ sit with any number
\* The buy-in of a sit command is whatever number the client sends. Here a number is
\* the fraction num / den (den > 0) and socket.on('sit') is applied to an empty table,
\* or one with seat 0 taken, so that the stack it writes is seen as the number it is.
Whole(n) == [num |-> n, den |-> 1]
numLess(a, b) == a.num * b.den < b.num * a.den
numMin(a, b) == IF numLess(b, a) THEN b ELSE a
numMax(a, b) == IF numLess(a, b) THEN b ELSE a
isInteger(a) == a.num % a.den = 0

\* Math.max(MIN_BUYIN, Math.min(MAX_BUYIN, Number(buyIn) || MIN_BUYIN))
clampBuyInNumber(buyIn) ==
  numMax(Whole(MIN_BUYIN),
         numMin(Whole(MAX_BUYIN), IF buyIn.num = 0 THEN Whole(MIN_BUYIN) ELSE buyIn))

BuyInNumbers ==
  {[num |-> n, den |-> d] : n \in {-1, 0, 150, 301, 2 * MAX_BUYIN + 1}, d \in {1, 2}}
SitTables ==
  {InitialState,
   [InitialState EXCEPT !.seats[0] = [socketId |-> "s2", chips |-> Whole(MIN_BUYIN)]]}

InitSit ==
  /\ state \in SitTables
  /\ conn = [c \in Sockets |-> "open"]
  /\ username \in [Sockets -> {cleanName(n) : n \in NameInputs}]
  /\ timers = 0
  /\ crashed = FALSE
  /\ nHands = 0
  /\ nActions = 0
  /\ nSits = 0
  /\ nLeaves = 0
  /\ handClean = FALSE
  /\ preHand = [i \in Seats |-> 0]
  /\ bbSeat = NULL
  /\ acted = {}
  /\ \E seat \in SeatInputs, buyIn \in BuyInNumbers :
        call = [fn |-> "sit", socket |-> "s1", seat |-> seat, buyIn |-> buyIn,
                done |-> FALSE, error |-> ""]

CallSit ==
  /\ call.fn = "sit"
  /\ ~call.done
  /\ \E err \in {sitError(state, username[call.socket], call.seat)} :
        /\ call' = [call EXCEPT !.done = TRUE, !.error = err]
        /\ IF err # ""
           THEN UNCHANGED <<state, nSits>>
           ELSE /\ state' = [state EXCEPT
                               !.seats[call.seat] =
                                 [socketId |-> call.socket,
                                  chips |-> clampBuyInNumber(call.buyIn)]]
                /\ nSits' = nSits + 1
  /\ UNCHANGED <<conn, username, timers, crashed, nHands, nActions, nLeaves,
                 handClean, preHand, bbSeat, acted>>

NextSit == CallSit

SpecSit == InitSit /\ [][NextSit]_vars

\* ------------------------------------------------------------------ properties
Callers == {c \in Sockets : Live(c)}
Fold == [type |-> "fold", amount |-> 0]
RealCards(hole) == {k \in DOMAIN hole : hole[k] \in Cards}
\* A hand that was started and has been paid out at showdown.
HandPaidOut(st) == st.activeSeats # <<>> /\ Len(st.community) = 5 /\ st.potTotal = 0

\* C1: while a hand runs with nobody sitting down or leaving, the stacks plus the pot
\* add up to what the stacks added up to before the hand was started.
C1_ChipConservation ==
  handClean =>
    SumOver(chipsOf(state), Seats) + state.potTotal = SumOver(preHand, Seats)

\* C2: outside showdown, the snapshot built for a client holds no real card in the
\* hole field of a seat that another client occupies (in either server's projection).
C2_HoleCardPrivacy ==
  state.phase # "showdown" =>
    \A v \in Sockets, idx \in Seats :
      (Occupied(state, idx) /\ state.seats[idx].socketId # v) =>
        /\ RealCards(publicStateForSocket(state, v).seats[idx].hole) = {}
        /\ RealCards(tableHoleView(state, v, idx)) = {}
C2_Witness ==
  /\ state.phase = "betting"
  /\ \E i, j \in Seats :
        /\ Occupied(state, i) /\ Occupied(state, j)
        /\ state.seats[i].socketId # state.seats[j].socketId
        /\ publicStateForSocket(state, state.seats[i].socketId).seats[j].hole = Hidden
        /\ publicStateForSocket(state, state.seats[i].socketId).seats[i].hole
             = state.holeCards[i]
        /\ state.holeCards[i] # <<>>

\* C3: at showdown, the snapshot built for a client holds no real card in the hole
\* field of a folded seat that another client occupies.
C3_ShowdownRevealsOnlyLiveSeats ==
  state.phase = "showdown" =>
    \A v \in {c \in Sockets : conn[c] = "open"}, idx \in Seats :
      (Occupied(state, idx) /\ state.seats[idx].socketId # v /\ state.folded[idx]) =>
        RealCards(publicStateForSocket(state, v).seats[idx].hole) = {}

\* C4: a performAction call that is rejected returns the table state it was given.
C4_RejectedActionNoChange ==
  \A c \in Callers, action \in ActionInputs :
    LET r == performAction(state, c, action)
    IN (~r.ok /\ ~r.threw) => r.state = state
C4_Witness ==
  /\ nActions > 0
  /\ \E c \in Callers :
        /\ performAction(state, c, [type |-> "raise", amount |-> 10]).error
             = "raise below minimum"
        /\ performAction(state, c, [type |-> "check", amount |-> 0]).error
             = "cannot check; need to call or fold"
  /\ \E c \in Callers : performAction(state, c, Fold).error = "not your turn"

\* C5: an action is accepted only when the table is in the betting phase and the
\* caller's seat is the seat whose turn it is, so one seat at most can act.
C5_AcceptedOnlyFromTurnSeat ==
  /\ \A c \in Callers, action \in ActionInputs :
        performAction(state, c, action).ok =>
          /\ state.phase = "betting"
          /\ seatIndexForSocket(state, c) # -1
          /\ seatIndexForSocket(state, c) = state.currentTurnSeat
  /\ Cardinality({seatIndexForSocket(state, c) :
                    c \in {d \in Callers :
                             \E action \in ActionInputs :
                               performAction(state, d, action).ok}}) <= 1
C5_Witness ==
  /\ nActions > 0
  /\ \E c \in Callers : performAction(state, c, Fold).ok
  /\ \E c \in Callers : seatIndexForSocket(state, c) # -1
                          /\ ~performAction(state, c, Fold).ok

\* C6: a start-hand command is rejected and returns the table state it was given
\* unless the caller is the owner and two or more occupied seats have chips.
C6_StartHandGate ==
  \A c \in Callers, shuffled \in Decks :
    LET r == startHandCommand(state, c, shuffled)
    IN ~(c = state.ownerSocket /\ Cardinality(seatedWithChips(state)) >= 2) =>
         (~r.ok /\ r.state = state)
C6_Witness ==
  /\ state.ownerSocket \in Callers
  /\ Cardinality(seatedWithChips(state)) = 1
  /\ Cardinality({i \in Seats : Occupied(state, i)}) = 2
  /\ ~startHandCommand(state, state.ownerSocket, makeDeck).ok

\* C7: a start-hand command is accepted only when the table is in the idle phase.
C7_StartHandOnlyWhenIdle ==
  \A c \in Callers, shuffled \in Decks :
    startHandCommand(state, c, shuffled).ok => state.phase = "idle"

\* C8: a fold that leaves one non-folded seat in the hand pays that seat the whole
\* pot, moves the table to showdown and deals no card, all in the same step.
C8_FoldToOneEndsHand ==
  \A c \in Callers :
    LET r == performAction(state, c, Fold)
        left == activePlayersRemaining(r.state)
    IN (r.ok /\ Len(activePlayersRemaining(state)) = 2 /\ Len(left) = 1) =>
         /\ r.state.phase = "showdown"
         /\ r.state.seats[left[1]].chips = state.seats[left[1]].chips + state.potTotal
         /\ r.state.potTotal = 0
         /\ r.state.community = state.community

\* C9: once a hand in which all seats but one folded is over and the table is idle
\* again, the remaining seat holds its stack from before the hand plus what the
\* folded seats put in, each folded seat holds its stack minus what it put in, and
\* the pot is empty.
C9_FoldOutRoundTrip ==
  (handClean /\ state.phase = "idle" /\ HandPaidOut(state)
     /\ Len(activePlayersRemaining(state)) = 1) =>
    LET w == activePlayersRemaining(state)[1]
        folders == {i \in Seats : state.folded[i]}
    IN /\ state.seats[w].chips = preHand[w] + SumOver(state.contributions, folders)
       /\ \A f \in folders : state.seats[f].chips = preHand[f] - state.contributions[f]
       /\ state.potTotal = 0

\* C10: buildPots returns pots whose amounts add up to the contributions, whose
\* eligible seats all have their mask set, and whose k-th pot is the layer between
\* the (k-1)-th and the k-th smallest positive contribution level, open to the
\* masked seats that reached that level.
Levels(contribs) == {contribs[i] : i \in {j \in Seats : contribs[j] > 0}}
LevelAt(contribs, k) ==
  IF k = 0 THEN 0
  ELSE CHOOSE l \in Levels(contribs) :
         Cardinality({m \in Levels(contribs) : m <= l}) = k
LayerAmount(contribs, k) ==
  SumOver([i \in Seats |-> MinOf(contribs[i], LevelAt(contribs, k))
                            - MinOf(contribs[i], LevelAt(contribs, k - 1))], Seats)
C10_BuildPotsSound ==
  (call.fn = "buildPots" /\ call.done) =>
    /\ SumOver([k \in DOMAIN call.pots |-> call.pots[k].amount], DOMAIN call.pots)
         = SumOver(call.contribs, Seats)
    /\ \A k \in DOMAIN call.pots :
          call.pots[k].eligibleSeats \subseteq {i \in Seats : call.activeMask[i]}
    /\ Len(call.pots) = Cardinality(Levels(call.contribs))
    /\ \A k \in DOMAIN call.pots :
          /\ call.pots[k].amount = LayerAmount(call.contribs, k)
          /\ call.pots[k].eligibleSeats
               = {i \in Seats : call.activeMask[i]
                                 /\ call.contribs[i] >= LevelAt(call.contribs, k)}
C10_Witness ==
  /\ call.fn = "buildPots"
  /\ call.done
  /\ Len(call.pots) = 2
  /\ call.pots[2].eligibleSeats = {}
  /\ call.pots[1].eligibleSeats # {}
  /\ call.pots[1].amount > call.pots[2].amount

\* C11: the chips a showdown pays seat i never exceed the sum over the seats j of
\* min(contributions[j], contributions[i]): a seat wins nothing of what other
\* seats put in above its own contribution.
CapOf(contribs, i) == SumOver([j \in Seats |-> MinOf(contribs[j], contribs[i])], Seats)
C11_SidePotCap ==
  (call.fn = "award" /\ call.done) =>
    \A i \in Seats : call.awards[i] <= CapOf(call.contribs, i)
C11_Witness ==
  /\ call.fn = "award"
  /\ call.done
  /\ \E i, j \in Seats :
        /\ call.contribs[i] > 0
        /\ call.contribs[i] < call.contribs[j]
        /\ call.awards[i] = CapOf(call.contribs, i)
        /\ call.awards[j] > 0
        /\ compareScoreArrays(call.seatHands[i], call.seatHands[j]) > 0

\* C12: each pot with an eligible seat pays only the eligible seats whose score no
\* other eligible seat of the pot beats; the tied best seats each get the floor of
\* an equal share and together the whole pot; the payout is the sum of these.
PotAward(k) == distributePots(<<call.pots[k]>>, call.seatHands)
BestOf(k) ==
  {s \in call.pots[k].eligibleSeats :
     \A t \in call.pots[k].eligibleSeats :
       compareScoreArrays(call.seatHands[t], call.seatHands[s]) <= 0}
C12_BestScoreTakesPot ==
  (call.fn = "award" /\ call.done) =>
    /\ \A k \in DOMAIN call.pots :
          call.pots[k].eligibleSeats # {} =>
            /\ \A s \in Seats \ BestOf(k) : PotAward(k)[s] = 0
            /\ \A s \in BestOf(k) :
                  PotAward(k)[s] >= call.pots[k].amount \div Cardinality(BestOf(k))
            /\ SumOver(PotAward(k), Seats) = call.pots[k].amount
    /\ \A s \in Seats :
          call.awards[s]
            = SumOver([k \in DOMAIN call.pots |-> PotAward(k)[s]], DOMAIN call.pots)
C12_Witness ==
  /\ call.fn = "award"
  /\ call.done
  /\ \E k \in DOMAIN call.pots :
        /\ Cardinality(BestOf(k)) = 2
        /\ Cardinality(call.pots[k].eligibleSeats) = 3
        /\ call.pots[k].amount % 2 = 1
        /\ \A s \in BestOf(k) : PotAward(k)[s] > 0

\* C14: a hand of 5 to 7 cards whose best five are the wheel A-2-3-4-5 (no flush, no
\* four of a kind, no full house, no higher straight) scores <<4, 3>>, and <<4, 3>>
\* compares below every straight score <<4, t>> with t a six or better and above
\* every score of the categories 0 to 3.
RanksOf(cards) == {rankIndex(cards[k]) : k \in DOMAIN cards}
CountOf(cards, r) == Cardinality({k \in DOMAIN cards : rankIndex(cards[k]) = r})
WheelIsBest(cards) ==
  /\ {12, 0, 1, 2, 3} \subseteq RanksOf(cards)
  /\ \A top \in 4 .. 12 : ~({top - k : k \in 0 .. 4} \subseteq RanksOf(cards))
  /\ \A su \in 0 .. 3 : Cardinality({k \in DOMAIN cards : suitOf(cards[k]) = su}) < 5
  /\ \A r \in 0 .. 12 : CountOf(cards, r) < 4
  /\ ~\E r, q \in 0 .. 12 : r # q /\ CountOf(cards, r) >= 3 /\ CountOf(cards, q) >= 2
EvalScores == {evaluateBest7(h) : h \in EvalHands}
C14_WheelStraight ==
  (call.fn = "evaluateBest7" /\ call.done /\ WheelIsBest(call.cards)) =>
    /\ call.score = <<4, 3>>
    /\ \A t \in 4 .. 12 :
          /\ compareScoreArrays(call.score, <<4, t>>) < 0
          /\ compareScoreArrays(<<4, t>>, call.score) > 0
    /\ \A sc \in EvalScores :
          /\ (sc[1] = 4 /\ sc[2] >= 4) => compareScoreArrays(call.score, sc) < 0
          /\ sc[1] <= 3 =>
                /\ compareScoreArrays(call.score, sc) > 0
                /\ compareScoreArrays(sc, call.score) < 0
C14_Witness ==
  /\ call.fn = "evaluateBest7"
  /\ call.done
  /\ WheelIsBest(call.cards)
  /\ Len(call.cards) = 7
  /\ CountOf(call.cards, 12) = 3
  /\ call.score = <<4, 3>>
  /\ \E sc \in EvalScores : sc[1] = 3 /\ sc[2] = 12
  /\ \E sc \in EvalScores : sc = <<4, 4>>
  /\ \A cat \in 0 .. 2 : \E sc \in EvalScores : sc[1] = cat

InHand(st) == {st.activeSeats[k] : k \in 1 .. Len(st.activeSeats)}
StillIn(st) == {i \in InHand(st) : ~st.folded[i]}

\* C13: while a hand is being played, a seat that was dealt in and has been vacated
\* does not hold the turn and is not among the seats eligible at showdown.
C13_VacatedSeatIsFolded ==
  state.phase = "betting" =>
    \A i \in InHand(state) :
      ~Occupied(state, i) =>
        /\ state.currentTurnSeat # i
        /\ ~activeMaskOf(state)[i]

\* C15: an accepted preflop action deals the flop with two or more seats still in
\* the hand only if the big-blind seat has acted in the round (this action counted).
C15_BigBlindOption ==
  \A c \in Callers, action \in ActionInputs :
    LET r == performAction(state, c, action)
    IN (r.ok /\ state.community = <<>> /\ Len(r.state.community) = 3
          /\ Cardinality(StillIn(r.state)) >= 2) =>
         bbSeat \in acted \cup {seatIndexForSocket(state, c)}

\* C16: an accepted action deals the next street or enters the showdown, with two
\* or more non-folded seats holding chips in the round, only if every one of those
\* seats has acted in the round (this action counted).
C16_RoundReturnsToOpener ==
  \A c \in Callers, action \in ActionInputs :
    LET r == performAction(state, c, action)
        holding == {i \in StillIn(r.state) : state.seats[i].chips > 0}
    IN (r.ok /\ streetAdvanced(state, r.state) /\ Cardinality(holding) >= 2) =>
         holding \subseteq acted \cup {seatIndexForSocket(state, c)}

\* C17: when an accepted action deals the next street or enters the showdown with
\* two or more seats still in the hand, every such seat with chips left has, once
\* the action is applied, a current bet equal to the highest current bet.
C17_NobodyOwesAtAdvance ==
  \A c \in Callers, action \in ActionInputs :
    LET r == performAction(state, c, action)
        s1 == applyAction(state, seatIndexForSocket(state, c), action).state
    IN (r.ok /\ streetAdvanced(state, r.state)) =>
         (Cardinality(StillIn(s1)) >= 2 =>
            \A i \in StillIn(s1) :
              s1.seats[i].chips > 0 => s1.currentBets[i] = highestCurrentBet(s1))
C17_Witness ==
  /\ state.lastAggressor # NULL
  /\ \E c \in Callers :
        LET r == performAction(state, c, [type |-> "call", amount |-> 0])
            me == seatIndexForSocket(state, c)
        IN /\ r.ok
           /\ streetAdvanced(state, r.state)
           /\ Cardinality(StillIn(r.state)) >= 2
           /\ state.currentBets[me] < highestCurrentBet(state)
           /\ r.state.seats[me].chips > 0
           /\ r.state.phase = "betting"

\* C18: in the betting phase the turn seat is occupied, not folded, in activeSeats
\* and holds hole cards; it is none only when one seat at most is still in the hand.
C18_TurnLegality ==
  state.phase = "betting" =>
    IF state.currentTurnSeat = NULL
    THEN Cardinality(StillIn(state)) <= 1
    ELSE /\ Occupied(state, state.currentTurnSeat)
         /\ state.currentTurnSeat \in StillIn(state)
         /\ state.holeCards[state.currentTurnSeat] # <<>>

\* C19: after an accepted action that leaves the table in the betting phase, the
\* turn seat is not a non-folded seat with an empty stack.
C19_AllInSeatsSkipped ==
  \A c \in Callers, action \in ActionInputs :
    LET r == performAction(state, c, action)
        t == r.state.currentTurnSeat
    IN (r.ok /\ r.state.phase = "betting" /\ t # NULL) =>
         ~(Occupied(r.state, t) /\ ~r.state.folded[t] /\ r.state.seats[t].chips = 0)

\* C20: a folded seat is never the turn seat, and an accepted action (the fold
\* itself, a street advance and the showdown payout included) leaves a folded
\* seat's stack and contribution as they were; a fold takes nothing out of the pot.
C20_FoldedSeatIsOut ==
  /\ state.currentTurnSeat # NULL => ~state.folded[state.currentTurnSeat]
  /\ \A c \in Callers, action \in ActionInputs :
        LET r == performAction(state, c, action)
        IN r.ok =>
             /\ r.state.currentTurnSeat # NULL => ~r.state.folded[r.state.currentTurnSeat]
             /\ \A i \in Seats :
                   r.state.folded[i] =>
                     /\ r.state.seats[i].chips = state.seats[i].chips
                     /\ r.state.contributions[i] = state.contributions[i]
             /\ (action.type = "fold" /\ r.state.phase = "betting") =>
                   r.state.potTotal = state.potTotal
C20_Witness ==
  /\ handClean
  /\ state.phase = "showdown"
  /\ \E i, j \in InHand(state) :
        /\ state.folded[i]
        /\ state.contributions[i] > BIG_BLIND
        /\ state.seats[i].chips = preHand[i] - state.contributions[i]
        /\ ~state.folded[j]
        /\ state.seats[j].chips = preHand[j] + state.contributions[i]

\* Bet and raise actions among the inputs.
Raises == {a \in ActionInputs : a.type \in {"bet", "raise"}}
toCallOf(st, i) == highestCurrentBet(st) - st.currentBets[i]

C22_InsufficientChipsRejected ==
  \A c \in Callers, action \in Raises :
    LET me == seatIndexForSocket(state, c)
        r == performAction(state, c, action)
        b == applyAction(state, me, action).state
        put == toCallOf(state, me) + action.amount
    IN actionGate(state, me) = "" =>
         /\ state.seats[me].chips < put => (~r.ok /\ r.state = state)
         /\ r.ok =>
              /\ b.seats[me].chips = state.seats[me].chips - put
              /\ b.currentBets[me] = state.currentBets[me] + put
              /\ b.contributions[me] = state.contributions[me] + put
              /\ b.potTotal = state.potTotal + put

AllIn == [type |-> "allin", amount |-> 0]

\* C23: an allin let through the gate whose raise portion (stack minus the amount to
\* call) is below minimumRaise leaves its branch with minimumRaise and lastAggressor
\* as they were; one whose raise portion is minimumRaise or more leaves it with
\* minimumRaise = the raise portion and lastAggressor = the acting seat.
C23_ShortAllIn ==
  \A c \in Callers :
    LET me == seatIndexForSocket(state, c)
        b == applyAction(state, me, AllIn).state
        raiseAmt == state.seats[me].chips - toCallOf(state, me)
    IN actionGate(state, me) = "" =>
         IF raiseAmt < state.minimumRaise
         THEN /\ b.minimumRaise = state.minimumRaise
              /\ b.lastAggressor = state.lastAggressor
         ELSE /\ b.minimumRaise = raiseAmt
              /\ b.lastAggressor = me

\* The non-folded seats of the hand that still hold chips.
CanBet(st) == {i \in StillIn(st) : Occupied(st, i) /\ st.seats[i].chips > 0}

\* C24: an accepted action that completes a betting round with two or more seats
\* still in the hand and one at most of them holding chips deals the board out to
\* five cards and enters the showdown in the same step; a started hand in which the
\* blinds leave one seat at most with chips is at the showdown too.
C24_AllInRunOut ==
  /\ \A c \in Callers, action \in ActionInputs :
        LET r == performAction(state, c, action)
            b == applyAction(state, seatIndexForSocket(state, c), action).state
        IN (r.ok /\ streetAdvanced(state, r.state)
              /\ Cardinality(StillIn(b)) >= 2 /\ Cardinality(CanBet(b)) <= 1) =>
             /\ r.state.phase = "showdown"
             /\ Len(r.state.community) = 5
  /\ \A c \in Callers, shuffled \in Decks :
        LET r == startHandCommand(state, c, shuffled)
        IN (r.ok /\ Cardinality(CanBet(r.state)) <= 1) => r.state.phase = "showdown"

\* How many seats clockwise seat i is after position from: 1 .. MAX_SEATS.
StepsAfter(from, i) == ((i - from - 1) % MAX_SEATS) + 1

\* C25: a start-hand command that is accepted puts the dealer button on the occupied
\* seat with chips that is the fewest seats clockwise after the previous button
\* position, and that seat is not the previous button seat.
C25_DealerRotation ==
  \A c \in Callers, shuffled \in Decks :
    LET r == startHandCommand(state, c, shuffled)
        d == r.state.dealer
    IN r.ok =>
         /\ d \in Seats
         /\ hasChips(state, d)
         /\ Occupied(r.state, d)
         /\ \A j \in seatedWithChips(state) :
               StepsAfter(state.dealer, d) <= StepsAfter(state.dealer, j)
         /\ d # state.dealer
\* A second hand has been started: the button moved from seat 0 to seat 2.
C25_Witness ==
  /\ nHands = 2
  /\ state.phase = "betting"
  /\ state.community = <<>>
  /\ state.dealer = 2
  /\ Occupied(state, 0) /\ Occupied(state, 2)
  /\ state.currentBets[2] > 0

\* The seat of S the fewest seats clockwise after position from.
NearestAfter(from, S) ==
  CHOOSE i \in S : \A j \in S : StepsAfter(from, i) <= StepsAfter(from, j)

\* C26: after an accepted startHand the small blind has been taken from the nearest
\* seat with chips clockwise after the button and the big blind from the nearest
\* seat with chips after that one, each min(blind, stack) moved from the stack into
\* currentBets, contributions and potTotal and nothing from any other seat; the
\* turn is on an occupied seat other than the big blind, with no seat that still
\* holds chips passed over between the big blind and it.
C26_BlindPosting ==
  (call.fn = "startHand" /\ call.done /\ call.ok) =>
    LET funded == {i \in Seats : preHand[i] > 0}
        sb == NearestAfter(state.dealer, funded)
        bb == NearestAfter(sb, funded)
        sbAmt == MinOf(SMALL_BLIND, preHand[sb])
        bbAmt == MinOf(BIG_BLIND, preHand[bb])
        t == state.currentTurnSeat
    IN /\ sb # bb
       /\ state.currentBets =
            [i \in Seats |-> IF i = sb THEN sbAmt ELSE IF i = bb THEN bbAmt ELSE 0]
       /\ state.contributions = state.currentBets
       /\ state.potTotal = sbAmt + bbAmt
       /\ \A i \in Seats : chipsOf(state)[i] = preHand[i] - state.currentBets[i]
       /\ t \in Seats
       /\ Occupied(state, t)
       /\ t # bb
       /\ \A j \in seatedWithChips(state) \ {bb} :
             StepsAfter(bb, t) <= StepsAfter(bb, j)

\* The cards the next street takes after a board of n cards.
StreetSize(n) == IF n = 0 THEN 3 ELSE 1

\* C27: the board holds 0, 3, 4 or 5 cards; an accepted action whose branch leaves
\* the betting round complete with fewer than five cards on the board resets every
\* currentBets entry to 0, minimumRaise to BIG_BLIND and lastAggressor to none, takes
\* one burn card and then 3 (flop), 1 (turn) or 1 (river) board cards off the top of
\* the deck, leaves stacks and contributions as the branch left them, keeps the
\* betting phase and puts the turn on the nearest occupied non-folded seat clockwise
\* after the button.
C27_StreetAdvance ==
  /\ Len(state.community) \in {0, 3, 4, 5}
  /\ \A c \in Callers, action \in ActionInputs :
        LET r == performAction(state, c, action)
            b == applyAction(state, seatIndexForSocket(state, c), action).state
            n == Len(state.community)
            k == StreetSize(n)
            L == Len(state.deck)
            inPlay == {i \in Seats : Occupied(r.state, i) /\ ~r.state.folded[i]}
        IN (r.ok /\ n < 5 /\ bettingRoundComplete(b) = "true") =>
             /\ r.state.currentBets = [i \in Seats |-> 0]
             /\ r.state.minimumRaise = BIG_BLIND
             /\ r.state.lastAggressor = NULL
             /\ Len(r.state.community) = n + k
             /\ SubSeq(r.state.community, 1, n) = state.community
             /\ \A j \in 1 .. k : r.state.community[n + j] = state.deck[L - j]
             /\ r.state.deck = SubSeq(state.deck, 1, L - k - 1)
             /\ chipsOf(r.state) = chipsOf(b)
             /\ r.state.contributions = b.contributions
             /\ r.state.phase = "betting"
             /\ IF inPlay = {} THEN r.state.currentTurnSeat = NULL
                ELSE r.state.currentTurnSeat = NearestAfter(r.state.dealer, inPlay)
\* The turn card has been dealt after two rounds with betting: two burns and four
\* board cards are gone from the deck and the round's bets are cleared.
C27_Witness ==
  /\ handClean
  /\ state.phase = "betting"
  /\ Len(state.community) = 4
  /\ Len(state.deck) = 52 - 2 * Len(state.activeSeats) - 6
  /\ Len(state.activeSeats) = 2
  /\ state.currentBets = [i \in Seats |-> 0]
  /\ state.potTotal > SMALL_BLIND + BIG_BLIND
  /\ state.minimumRaise = BIG_BLIND
  /\ state.lastAggressor = NULL
  /\ state.currentTurnSeat = firstAfterDealer(state)
  /\ state.currentTurnSeat # NULL

\* C28: with nobody leaving the table, timer callbacks run and acceptable actions
\* sent in the end, a table in the betting phase always has a client whose action
\* would be accepted, it gets to the showdown (unless the model's budget of actions
\* is used up first), and a table at the showdown gets back to idle.
C28_HandLiveness ==
  /\ [](state.phase = "betting" =>
          \E c \in Callers, action \in ActionInputs : performAction(state, c, action).ok)
  /\ (state.phase = "betting") ~> (state.phase = "showdown" \/ nActions = MaxActions)
  /\ (state.phase = "showdown") ~> (state.phase = "idle")

\* C29: a step in which a post-showdown timer callback runs starts at the showdown
\* that scheduled it and ends idle; it is never taken from the betting phase of a
\* hand that was started in the meantime.
C29_TimerOnlyEndsItsHand ==
  [][(timers' < timers) => (state.phase = "showdown" /\ state'.phase = "idle")]_vars

\* C30: no two occupied seats carry the same client (socket) identity.
C30_OneSeatPerClient ==
  \A i, j \in Seats :
    (i # j /\ Occupied(state, i) /\ Occupied(state, j)) =>
      state.seats[i].socketId # state.seats[j].socketId

\* C31: the stack of every occupied seat is an integer that is 0 or more, and the
\* pot, every current bet and every contribution are 0 or more (here for the stacks
\* that sit writes, read as the numbers they are).
C31_StacksAreNaturals ==
  /\ \A i \in Seats :
        Occupied(state, i) =>
          /\ isInteger(state.seats[i].chips)
          /\ ~numLess(state.seats[i].chips, Whole(0))
  /\ state.potTotal >= 0
  /\ \A i \in Seats : state.currentBets[i] >= 0 /\ state.contributions[i] >= 0

\* The part of C31 on the chips a hand moves: with whole buy-ins no stack, bet,
\* contribution or pot is ever negative.
NoOverCommit ==
  /\ \A i \in Seats :
        state.seats[i].chips >= 0 /\ state.currentBets[i] >= 0
          /\ state.contributions[i] >= 0
  /\ state.potTotal >= 0

\* The seats paid from pot k: the eligible seats with a hand that no eligible seat
\* with a hand beats.
Tied(k) ==
  LET withHand == {s \in call.pots[k].eligibleSeats : call.seatHands[s] # <<>>}
  IN {s \in withHand :
        \A t \in withHand : compareScoreArrays(call.seatHands[t], call.seatHands[s]) <= 0}
Paying == {k \in DOMAIN call.pots : Tied(k) # {}}

\* C32: of each pot with an eligible seat that has a hand, distributePots gives every
\* tied winner amount \div n, the first winner in seat order amount % n on top and
\* the other seats nothing, which is the pot's amount in total; the whole payout is
\* the sum of the amounts of these pots.
C32_ExactSplit ==
  (call.fn = "award" /\ call.done) =>
    /\ \A k \in Paying :
          LET amount == call.pots[k].amount
              n == Cardinality(Tied(k))
          IN /\ \A s \in Tied(k) :
                   PotAward(k)[s]
                     = (amount \div n) + (IF s = Min(Tied(k)) THEN amount % n ELSE 0)
             /\ \A s \in Seats \ Tied(k) : PotAward(k)[s] = 0
             /\ SumOver(PotAward(k), Seats) = amount
    /\ SumOver(call.awards, Seats)
         = SumOver([k \in DOMAIN call.pots |-> call.pots[k].amount], Paying)
\* A pot of 3 chips split between two tied seats (2 to the first, 1 to the other)
\* and a pot of 4 chips split between three (2, 1, 1).
C32_Witness ==
  /\ call.fn = "award"
  /\ call.done
  /\ \E k \in Paying :
        /\ call.pots[k].amount = 3
        /\ Cardinality(Tied(k)) = 2
        /\ PotAward(k)[Min(Tied(k))] = 2
        /\ \E s \in Tied(k) : PotAward(k)[s] = 1
  /\ \E k \in Paying :
        /\ call.pots[k].amount = 4
        /\ Cardinality(Tied(k)) = 3
        /\ PotAward(k)[Min(Tied(k))] = 2

====
